---- MODULE Spec2Model ----
(***************************************************************************)
(* Model of src/src/main.rs: the family of identical factorial functions,  *)
(* the timing harness measure() and the aggregation loop of main().        *)
(*                                                                         *)
(* u64 values are kept at their real width: a u64 is a little-endian       *)
(* tuple of four 16-bit limbs, so u64::MAX, saturation and the unsigned    *)
(* subtraction behave as they do on the machine.                           *)
(***************************************************************************)
EXTENDS Integers, Sequences, FiniteSets

\* ------------------------------------------------------------------------
\* Bounds of the model and constants of the program
\* ------------------------------------------------------------------------

\* Inputs of the factorial driver are 0..MaxArg and ARG.
MaxArg == 22

\* NOP_COUNT (a build-time environment variable) ranges over 0..MaxNops.
MaxNops == 2

\* Entries of main's `functions` array that the model measures (10 in the
\* source; the shuffle makes the state space grow with the factorial of it).
NFUNCS == 3

\* measure()'s SAMPLES (10000 in the source) and SAMPLE_SIZE (100 in the
\* source), scaled down so that every batch is explored.
SAMPLES == 10

SAMPLE_SIZE == 2

\* The argument of every call made by measure(): black_box(100).
ARG == 100

\* define_multiple!(factorial, skip, 1, ..., 10)
FAMILY == 10

\* Warm up runs SAMPLES / 10 calls.
WARMUP_DIV == 10

\* ------------------------------------------------------------------------
\* u64 arithmetic
\* ------------------------------------------------------------------------

Base == 2 ^ 16

Limbs == 1 .. 4

\* u64::max_value()
U64_MAX == <<Base - 1, Base - 1, Base - 1, Base - 1>>

\* u64::min_value()
U64_MIN == <<0, 0, 0, 0>>

\* A literal or a small machine value x (0 <= x < 2^31) as a u64.
ToU64(x) == <<x % Base, (x \div Base) % Base, 0, 0>>

RECURSIVE LtFrom(_, _, _)
LtFrom(a, b, i) ==
    IF i = 0 THEN FALSE
    ELSE IF a[i] # b[i] THEN a[i] < b[i]
    ELSE LtFrom(a, b, i - 1)

\* a < b on u64
Lt(a, b) == LtFrom(a, b, 4)

Le(a, b) == ~Lt(b, a)

\* A minimum that keeps the newer value.
MinULast(a, b) == b

\* u64::min(self, other)
MinU(a, b) == IF Lt(b, a) THEN b ELSE a

\* A maximum that keeps the newer value.
MaxULast(a, b) == b

\* u64::max(self, other)
MaxU(a, b) == IF Lt(a, b) THEN b ELSE a

\* The carry into limb i of a * k (k < 2^15), carry 0 into limb 1.
RECURSIVE MulCarry(_, _, _)
MulCarry(a, k, i) ==
    IF i = 1 THEN 0
    ELSE (a[i - 1] * k + MulCarry(a, k, i - 1)) \div Base

\* The low 64 bits of a * k.
MulLimb(a, k, i) == (a[i] * k + MulCarry(a, k, i)) % Base

MulLow(a, k) ==
    <<MulLimb(a, k, 1), MulLimb(a, k, 2), MulLimb(a, k, 3), MulLimb(a, k, 4)>>

\* Whether a * k needs more than 64 bits.
MulOverflows(a, k) == MulCarry(a, k, 5) # 0

\* u64::wrapping_mul: the multiplication without the saturation.
wrapping_mul(a, k) == MulLow(a, k)

\* u64::saturating_mul
saturating_mul(a, k) == IF MulOverflows(a, k) THEN U64_MAX ELSE MulLow(a, k)

\* The remainder carried into limb i of a / d (d < 2^15), from the top limb.
RECURSIVE DivRem(_, _, _)
DivRem(a, d, i) ==
    IF i = 4 THEN 0
    ELSE (DivRem(a, d, i + 1) * Base + a[i + 1]) % d

\* a / d on u64, truncating; 0 < d < 2^15.
DivLimb(a, d, i) == (DivRem(a, d, i) * Base + a[i]) \div d

DivU(a, d) ==
    <<DivLimb(a, d, 1), DivLimb(a, d, 2), DivLimb(a, d, 3), DivLimb(a, d, 4)>>

\* The borrow into limb i of a - b.
RECURSIVE SubBorrow(_, _, _)
SubBorrow(a, b, i) ==
    IF i = 1 THEN 0
    ELSE IF a[i - 1] - b[i - 1] - SubBorrow(a, b, i - 1) < 0 THEN 1 ELSE 0

\* a - b modulo 2^64
SubLimb(a, b, i) == (a[i] - b[i] - SubBorrow(a, b, i) + Base) % Base

SubU(a, b) ==
    <<SubLimb(a, b, 1), SubLimb(a, b, 2), SubLimb(a, b, 3), SubLimb(a, b, 4)>>

\* ------------------------------------------------------------------------
\* factorial::<N> and the padding
\* ------------------------------------------------------------------------

\* An entry that lets the tag into the accumulator.
FactEntryTagged(N, n) ==
    [tag |-> N, vol |-> N, n |-> n, m |-> ToU64(N), iters |-> 0, nops |-> 0]

\* The frame of factorial::<N>(n) on entry: the volatile read of N (its
\* value is dropped) and `let mut m = 1u64`. iters and nops count the loop
\* iterations and the padding instructions executed so far.
FactEntry(N, n) ==
    [tag |-> N, vol |-> N, n |-> n, m |-> ToU64(1), iters |-> 0, nops |-> 0]

\* A loop that also runs for n = 1.
LoopCondZero(st) == st.n > 0

\* while n > 1
LoopCond(st) == st.n > 1

\* m = m.saturating_mul(n); n -= 1;
LoopBody(st) ==
    [st EXCEPT !.m = saturating_mul(st.m, st.n), !.n = st.n - 1,
               !.iters = st.iters + 1]

\* One padding instruction: it is executed and touches no register of the
\* loop.
NopInsn(st) == [st EXCEPT !.nops = st.nops + 1]

\* __asm_nops(): p padding instructions in a row.
RECURSIVE AsmNops(_, _)
AsmNops(st, p) == IF p = 0 THEN st ELSE AsmNops(NopInsn(st), p - 1)

\* An iteration whose padding shares the counter of the loop.
LoopIterCounted(st, p) == AsmNops([LoopBody(st) EXCEPT !.n = @ - p], p)

\* One iteration of the loop: the body, then the padding.
LoopIter(st, p) == AsmNops(LoopBody(st), p)

RECURSIVE FactLoop(_, _)
FactLoop(st, p) == IF LoopCond(st) THEN FactLoop(LoopIter(st, p), p) ELSE st

\* factorial_N(n) of a build with p padding instructions: the frame at the
\* return, whose m is the value returned.
factorial(N, n, p) == FactLoop(FactEntry(N, n), p)

\* ------------------------------------------------------------------------
\* State
\* ------------------------------------------------------------------------

VARIABLES
    entry,        \* "test": the equivalence driver; "main": the program
    nop_count,    \* NOP_COUNT of the build
    samples,      \* measure: const SAMPLES
    sample_size,  \* measure: const SAMPLE_SIZE
    tn,           \* driver: the input under test
    ti,           \* driver: the family member being called
    fpc,          \* driver: "idle" between calls, "loop" inside factorial
    fr,           \* the frame of the running (or of the last) call
    results,      \* driver: the values returned so far, by member
    pc,           \* main: "shuffle", "loop", "warmup", "samples", "batch",
                  \*       "done", "panic"; "off" in the driver
    functions,    \* main: the array of (identity, entry point) pairs
    idx,          \* main: position of the for loop in functions
    min,          \* main: let mut min
    max,          \* main: let mut max
    stderr,       \* the latency lines written so far
    stdout,       \* the summary lines written so far
    f,            \* measure: the entry point being measured
    m_min,        \* measure: let mut min
    warm,         \* measure: warm up calls made
    sample,       \* measure: batches completed
    call,         \* measure: calls made in the running batch
    timing,       \* measure: an Instant is taken and not yet read
    calls,        \* history: calls of f made by the running measure
    clock_reads,  \* history: clock reads made by the running measure
    seen,         \* history: elapsed nanoseconds of the batches of this measure
    trace,        \* history: the entry points measure was called with
    finished      \* history: measure calls that have returned

factVars == <<tn, ti, fpc, results>>

mainVars == <<pc, functions, idx, min, max, stderr, stdout>>

measureVars == <<f, m_min, warm, sample, call, timing>>

histVars == <<calls, clock_reads, seen, trace, finished>>

buildVars == <<entry, nop_count, samples, sample_size>>

vars == <<buildVars, factVars, fr, mainVars, measureVars, histVars>>

NoFrame == FactEntry(0, 0)

\* An array whose second entry names factorial_1.
TableMislabelled ==
    [i \in 1 .. NFUNCS |-> [id |-> i, f |-> IF i = 2 THEN 1 ELSE i]]

\* let mut functions: [(usize, fn(u64) -> u64); 10] = [(1, factorial_1), ...]
Table == [i \in 1 .. NFUNCS |-> [id |-> i, f |-> i]]

\* The inputs the driver feeds to the family.
Inputs == (0 .. MaxArg) \cup {ARG}

\* What `time.elapsed().as_nanos() as u64` may be for one batch: less than
\* SAMPLE_SIZE nanoseconds, a little over 70 microseconds per call, and the
\* largest u64.
ElapsedNanos ==
    {ToU64(SAMPLE_SIZE - 1), ToU64(70000 * SAMPLE_SIZE + 1), U64_MAX}

MainIdle ==
    /\ pc = "off"
    /\ functions = Table
    /\ idx = 1
    /\ min = U64_MAX
    /\ max = U64_MIN
    /\ stderr = <<>>
    /\ stdout = <<>>

MeasureIdle ==
    /\ f = 0
    /\ m_min = U64_MAX
    /\ warm = 0
    /\ sample = 0
    /\ call = 0
    /\ timing = FALSE
    /\ calls = 0
    /\ clock_reads = 0
    /\ seen = {}
    /\ trace = <<>>
    /\ finished = 0

FactIdle ==
    /\ tn = 0
    /\ ti = 1
    /\ fpc = "idle"
    /\ fr = NoFrame
    /\ results = <<>>

\* The driver: every member of the family is called on one input.
InitTest ==
    /\ entry = "test"
    /\ nop_count \in 0 .. MaxNops
    /\ samples = SAMPLES
    /\ sample_size = SAMPLE_SIZE
    /\ tn \in Inputs
    /\ ti = 1
    /\ fpc = "idle"
    /\ fr = NoFrame
    /\ results = <<>>
    /\ MainIdle
    /\ MeasureIdle

\* main() after `let mut functions = [...]`, in a build with padding.
InitMain ==
    /\ entry = "main"
    /\ nop_count = MaxNops
    /\ samples = SAMPLES
    /\ sample_size = SAMPLE_SIZE
    /\ FactIdle
    /\ pc = "shuffle"
    /\ functions = Table
    /\ idx = 1
    /\ min = U64_MAX
    /\ max = U64_MIN
    /\ stderr = <<>>
    /\ stdout = <<>>
    /\ MeasureIdle

\* main() of a build in which one of SAMPLES and SAMPLE_SIZE may have been
\* set to zero.
InitConfig ==
    /\ entry = "main"
    /\ nop_count = MaxNops
    /\ samples \in {0, SAMPLES}
    /\ sample_size \in {0, SAMPLE_SIZE}
    /\ samples = SAMPLES \/ sample_size = SAMPLE_SIZE
    /\ FactIdle
    /\ pc = "shuffle"
    /\ functions = Table
    /\ idx = 1
    /\ min = U64_MAX
    /\ max = U64_MIN
    /\ stderr = <<>>
    /\ stdout = <<>>
    /\ MeasureIdle

\* ------------------------------------------------------------------------
\* The driver
\* ------------------------------------------------------------------------

\* factorial_<ti>(tn) is called: factorial::<ti>(tn) is inlined into it.
FactCall ==
    /\ entry = "test"
    /\ fpc = "idle"
    /\ ti <= FAMILY
    /\ fr' = FactEntry(ti, tn)
    /\ fpc' = "loop"
    /\ UNCHANGED <<buildVars, tn, ti, results, mainVars, measureVars, histVars>>

\* One iteration of `while n > 1`.
LoopStep ==
    /\ entry = "test"
    /\ fpc = "loop"
    /\ LoopCond(fr)
    /\ fr' = LoopIter(fr, nop_count)
    /\ UNCHANGED <<buildVars, factVars, mainVars, measureVars, histVars>>

\* The loop is left and m is returned.
FactReturn ==
    /\ entry = "test"
    /\ fpc = "loop"
    /\ ~LoopCond(fr)
    /\ results' = Append(results, fr.m)
    /\ ti' = ti + 1
    /\ fpc' = "idle"
    /\ UNCHANGED <<buildVars, tn, fr, mainVars, measureVars, histVars>>

NextTest == FactCall \/ LoopStep \/ FactReturn

\* ------------------------------------------------------------------------
\* main and measure
\* ------------------------------------------------------------------------

\* The arrays that hold the entries of t, each once, in some order.
Shuffles(t) ==
    {p \in [DOMAIN t -> {t[i] : i \in DOMAIN t}] :
        \A i, j \in DOMAIN t : p[i] = p[j] => i = j}

\* functions.shuffle(&mut rnd)
Shuffle ==
    /\ pc = "shuffle"
    /\ functions' \in Shuffles(functions)
    /\ idx' = 1
    /\ pc' = "loop"
    /\ UNCHANGED <<buildVars, factVars, fr, min, max, stderr, stdout,
                   measureVars, histVars>>

\* for (i, f) in functions: measure(f) is entered, `let mut min = u64::MAX`.
MeasureCall ==
    /\ pc = "loop"
    /\ idx <= Len(functions)
    /\ f' = functions[idx].f
    /\ m_min' = U64_MAX
    /\ warm' = 0
    /\ sample' = 0
    /\ call' = 0
    /\ timing' = FALSE
    /\ calls' = 0
    /\ clock_reads' = 0
    /\ seen' = {}
    /\ trace' = Append(trace, functions[idx].f)
    /\ pc' = "warmup"
    /\ UNCHANGED <<buildVars, factVars, fr, functions, idx, min, max, stderr,
                   stdout, finished>>

\* f(100) for every entry point f and every padding count, each computed by
\* factorial as above: measure calls nothing else.
CallTable ==
    [N \in 1 .. FAMILY, p \in 0 .. MaxNops |-> factorial(N, ARG, p)]

\* black_box(f(black_box(100))): the frame of the call at its return.
CallF(N, p) == CallTable[N, p]

\* A warm up as long as the measurement.
WarmupCountAll(n) == n

\* 0..(SAMPLES / 10)
WarmupCount(n) == n \div WARMUP_DIV

\* black_box(f(black_box(100))) of the warm up loop.
WarmupCall ==
    /\ pc = "warmup"
    /\ warm < WarmupCount(samples)
    /\ fr' = CallF(f, nop_count)
    /\ warm' = warm + 1
    /\ calls' = calls + 1
    /\ UNCHANGED <<buildVars, factVars, mainVars, f, m_min, sample, call,
                   timing, clock_reads, seen, trace, finished>>

\* The warm up loop is left.
WarmupDone ==
    /\ pc = "warmup"
    /\ warm >= WarmupCount(samples)
    /\ sample' = 0
    /\ pc' = "samples"
    /\ UNCHANGED <<buildVars, factVars, fr, functions, idx, min, max, stderr,
                   stdout, f, m_min, warm, call, timing, histVars>>

\* let time = Instant::now()
BatchStart ==
    /\ pc = "samples"
    /\ sample < samples
    /\ timing' = TRUE
    /\ clock_reads' = clock_reads + 1
    /\ call' = 0
    /\ pc' = "batch"
    /\ UNCHANGED <<buildVars, factVars, fr, functions, idx, min, max, stderr,
                   stdout, f, m_min, warm, sample, calls, seen, trace, finished>>

\* black_box(f(black_box(100))) of a timed batch.
BatchCall ==
    /\ pc = "batch"
    /\ call < sample_size
    /\ fr' = CallF(f, nop_count)
    /\ call' = call + 1
    /\ calls' = calls + 1
    /\ UNCHANGED <<buildVars, factVars, mainVars, f, m_min, warm, sample,
                   timing, clock_reads, seen, trace, finished>>

\* time.elapsed().as_nanos() as u64 / SAMPLE_SIZE as u64
PerCall(elapsed, size) == DivU(elapsed, size)

\* The batch ends: the clock is read and the minimum is updated.
BatchEnd ==
    /\ pc = "batch"
    /\ call >= sample_size
    /\ sample_size # 0
    /\ \E elapsed \in ElapsedNanos :
          /\ m_min' = MinU(m_min, PerCall(elapsed, sample_size))
          /\ seen' = seen \cup {elapsed}
    /\ timing' = FALSE
    /\ clock_reads' = clock_reads + 1
    /\ sample' = sample + 1
    /\ pc' = "samples"
    /\ UNCHANGED <<buildVars, factVars, fr, functions, idx, min, max, stderr,
                   stdout, f, warm, call, calls, trace, finished>>

\* The batch ends in a build whose SAMPLE_SIZE is zero: the division panics.
DivideByZero ==
    /\ pc = "batch"
    /\ call >= sample_size
    /\ sample_size = 0
    /\ pc' = "panic"
    /\ UNCHANGED <<buildVars, factVars, fr, functions, idx, min, max, stderr,
                   stdout, measureVars, histVars>>

\* measure returns its min; main writes the latency line and folds the value
\* into its own min and max.
MeasureReturn ==
    /\ pc = "samples"
    /\ sample >= samples
    /\ stderr' = Append(stderr, [id |-> functions[idx].id, value |-> m_min])
    /\ min' = MinU(min, m_min)
    /\ max' = MaxU(max, m_min)
    /\ idx' = idx + 1
    /\ finished' = finished + 1
    /\ pc' = "loop"
    /\ UNCHANGED <<buildVars, factVars, fr, functions, stdout, measureVars,
                   calls, clock_reads, seen, trace>>

\* println!("NOP_COUNT={} max-min difference = {}", nop_count!(), max - min).
\* `max - min` below zero panics in a build with overflow checks and wraps
\* in a build without.
Summary ==
    /\ pc = "loop"
    /\ idx > Len(functions)
    /\ \E overflow_checks \in BOOLEAN :
          IF Lt(max, min) /\ overflow_checks
          THEN pc' = "panic" /\ stdout' = stdout
          ELSE /\ pc' = "done"
               /\ stdout' = Append(stdout, [nop_count |-> nop_count,
                                            difference |-> SubU(max, min)])
    /\ UNCHANGED <<buildVars, factVars, fr, functions, idx, min, max, stderr,
                   measureVars, histVars>>

NextMain ==
    \/ Shuffle
    \/ MeasureCall
    \/ WarmupCall
    \/ WarmupDone
    \/ BatchStart
    \/ BatchCall
    \/ BatchEnd
    \/ MeasureReturn
    \/ Summary

Init == InitTest \/ InitMain

Next == NextTest \/ NextMain

Spec == Init /\ [][Next]_vars

\* The program built with SAMPLES or SAMPLE_SIZE possibly zero.
NextConfig == NextMain \/ DivideByZero

SpecConfig == InitConfig /\ [][NextConfig]_vars

\* ------------------------------------------------------------------------
\* Reference: the factorial as an unbounded number
\* ------------------------------------------------------------------------

\* a * k + c on little-endian limb sequences of any length.
RECURSIVE BigMul(_, _, _)
BigMul(a, k, c) ==
    IF a = <<>>
    THEN (IF c = 0 THEN <<>> ELSE <<c % Base>> \o BigMul(<<>>, k, c \div Base))
    ELSE <<(Head(a) * k + c) % Base>>
             \o BigMul(Tail(a), k, (Head(a) * k + c) \div Base)

\* acc * k * (k + 1) * ... * hi for k >= 1, exact as long as it fits 64 bits:
\* the factors are at least 1, so a product that needs a fifth limb never
\* fits again and the multiplication stops there.
RECURSIVE BigProdFrom(_, _, _)
BigProdFrom(acc, k, hi) ==
    IF k > hi \/ Len(acc) > 4 THEN acc
    ELSE BigProdFrom(BigMul(acc, k, 0), k + 1, hi)

\* lo * (lo + 1) * ... * hi for lo >= 1, 1 when the range is empty; beyond
\* 64 bits, some number beyond 64 bits.
BigProd(lo, hi) == BigProdFrom(<<1>>, lo, hi)

\* min(x, 2^64 - 1) as a u64, for x without leading zero limbs.
Saturate(x) ==
    IF Len(x) > 4 THEN U64_MAX
    ELSE x \o SubSeq(U64_MIN, Len(x) + 1, 4)

\* min(n!, 2^64 - 1)
SatFactorial(n) == Saturate(BigProd(2, n))

\* The carry into limb i of a + b.
RECURSIVE AddCarry(_, _, _)
AddCarry(a, b, i) ==
    IF i = 1 THEN 0
    ELSE (a[i - 1] + b[i - 1] + AddCarry(a, b, i - 1)) \div Base

\* a + d = b as numbers: d is the difference b - a and a <= b.
IsDifference(d, b, a) ==
    /\ AddCarry(a, d, 5) = 0
    /\ \A i \in Limbs : (a[i] + d[i] + AddCarry(a, d, i)) % Base = b[i]

\* v * size <= e as numbers: v is at most floor(e / size).
AtMostPerCall(v, e, size) ==
    /\ ~MulOverflows(v, size)
    /\ Le(MulLow(v, size), e)

\* v = floor(e / size): 0 <= e - v * size < size.
IsPerCall(v, e, size) ==
    /\ AtMostPerCall(v, e, size)
    /\ Lt(SubU(e, MulLow(v, size)), ToU64(size))

Max0(x) == IF x > 0 THEN x ELSE 0

\* The per-member minimum latencies reported so far.
Values == {stderr[i].value : i \in DOMAIN stderr}

Least(S) == CHOOSE v \in S : \A w \in S : Le(v, w)

Greatest(S) == CHOOSE v \in S : \A w \in S : Le(w, v)

\* ------------------------------------------------------------------------
\* Claims
\* ------------------------------------------------------------------------

\* C1: for one input, every member of the family returns the same value:
\* the identity tag N and the volatile read of it never reach the result.
FamilyEquivalent ==
    \A i, j \in DOMAIN results : results[i] = results[j]

\* C1 witness: all ten members have returned 5! = 120.
FamilyEquivalentWitness ==
    /\ entry = "test"
    /\ tn = 5
    /\ Len(results) = FAMILY
    /\ results[1] = ToU64(120)
    /\ results[FAMILY] = ToU64(120)

\* C2: factorial(n) returns min(n!, 2^64 - 1): 1 for n in {0, 1}, u64::MAX
\* for n = 100; inside the loop m is min(n * (n-1) * ... * (k+1), 2^64 - 1)
\* where k is the current n, so m never wraps and stays at u64::MAX once
\* there, and n never goes below zero.
SaturatingFactorial ==
    entry = "test" =>
        /\ fr.n >= 0
        /\ fpc = "loop" => fr.m = Saturate(BigProd(fr.n + 1, tn))
        /\ LET expected == SatFactorial(tn)
           IN  \A i \in DOMAIN results :
                  /\ results[i] = expected
                  /\ tn <= 1 => results[i] = ToU64(1)
                  /\ tn = ARG => results[i] = U64_MAX

\* C2 witness: factorial(100) has returned u64::MAX, pinned there since 21.
SaturatingFactorialWitness ==
    /\ entry = "test"
    /\ tn = ARG
    /\ results # <<>>
    /\ results[1] = U64_MAX
    /\ fr.iters = ARG - 1

\* C3: the value measure returns is at most the per-call latency
\* floor(elapsed / SAMPLE_SIZE) of every one of its SAMPLES batches and is
\* the per-call latency of one of them; the running minimum is so after
\* every batch.
MeasureReturnsMinimum ==
    /\ (pc = "samples" /\ sample > 0) =>
          /\ \A e \in seen : AtMostPerCall(m_min, e, sample_size)
          /\ \E e \in seen : IsPerCall(m_min, e, sample_size)
    /\ (pc \in {"loop", "done"} /\ finished > 0) =>
          /\ sample = samples
          /\ \A e \in seen : AtMostPerCall(stderr[finished].value, e, sample_size)
          /\ \E e \in seen : IsPerCall(stderr[finished].value, e, sample_size)

\* C3 witness: a measure whose batches took different times has returned the
\* smaller per-call latency, 70000.
MeasureReturnsMinimumWitness ==
    /\ pc = "loop"
    /\ finished = 1
    /\ seen = {ToU64(70000 * SAMPLE_SIZE + 1), U64_MAX}
    /\ stderr[1].value = ToU64(70000)

MinimumPositiveFinite ==
    \A v \in Values : Lt(U64_MIN, v) /\ v # U64_MAX

\* C6: at the head of the loop, once a member is folded in, min and max are
\* the least and the greatest of the values reported so far, so min <= max
\* (they do not change while measure runs); the summary carries the
\* difference of the greatest and the least reported value, whatever the
\* order of the members, and the subtraction never goes below zero.
SpreadIsMaxMinusMin ==
    /\ pc # "panic"
    /\ (pc \in {"loop", "done"} /\ finished > 0) =>
          /\ Le(min, max)
          /\ min = Least(Values)
          /\ max = Greatest(Values)
    /\ \A i \in DOMAIN stdout :
          IsDifference(stdout[i].difference, Greatest(Values), Least(Values))

\* C6 witness: the summary reports a spread of 70000 between members
\* measured at 0 and at 70000.
SpreadIsMaxMinusMinWitness ==
    /\ pc = "done"
    /\ Values = {ToU64(0), ToU64(70000)}
    /\ stdout[1].difference = ToU64(70000)

\* C7: measure is called on the entries of the shuffled array in order, on
\* no entry point twice; every latency line carries the identity of the
\* entry point measured for it; the one summary line is written after every
\* member has been measured and reported.
OneLinePerMember ==
    entry = "main" =>
        /\ Len(stderr) = finished
        /\ \A k \in DOMAIN stderr : stderr[k].id = trace[k]
        /\ \A k \in DOMAIN trace : trace[k] = functions[k].f
        /\ \A a, b \in DOMAIN trace : trace[a] = trace[b] => a = b
        /\ Len(stdout) <= 1
        /\ stdout # <<>> =>
              /\ Len(stderr) = NFUNCS
              /\ {trace[k] : k \in DOMAIN trace} = 1 .. NFUNCS
              /\ {stderr[k].id : k \in DOMAIN stderr} = 1 .. NFUNCS
        /\ pc = "done" => Len(stdout) = 1

\* C7 witness: a run whose shuffle reversed the array has written all lines.
OneLinePerMemberWitness ==
    /\ pc = "done"
    /\ functions[1].id = NFUNCS
    /\ functions[NFUNCS].id = 1
    /\ Len(stderr) = NFUNCS
    /\ stderr[1].id = NFUNCS
    /\ Len(stdout) = 1

\* C8: a member built with any number of padding instructions returns what
\* the member built with none returns, and it did execute its padding.
PaddingInvariance ==
    (entry = "test" /\ fpc = "idle" /\ results # <<>>) =>
        /\ results[Len(results)] = factorial(ti - 1, tn, 0).m
        /\ fr.nops = fr.iters * nop_count

\* C8 witness: a member with padding has returned after executing it.
PaddingInvarianceWitness ==
    /\ entry = "test"
    /\ fpc = "idle"
    /\ nop_count > 0
    /\ tn = 6
    /\ fr.nops = 5 * nop_count
    /\ results # <<>>
    /\ results[1] = ToU64(720)

\* C9: warm up makes SAMPLES / 10 calls; while it runs no clock has been
\* read, no batch is timed and the minimum is untouched; the first clock
\* read comes after the last warm up call.
WarmupBeforeTiming ==
    /\ pc = "warmup" =>
          /\ clock_reads = 0
          /\ ~timing
          /\ m_min = U64_MAX
          /\ seen = {}
          /\ calls = warm
    /\ (pc \in {"samples", "batch"} \/ clock_reads > 0) =>
          /\ 10 * warm <= samples
          /\ samples < 10 * (warm + 1)

\* C9 witness: the first batch is being timed after one warm up call.
WarmupBeforeTimingWitness ==
    /\ pc = "batch"
    /\ warm >= 1
    /\ clock_reads = 1
    /\ calls = warm + 1

\* The steps one measure call takes.
MeasureSteps == 3 + WarmupCount(samples) + samples * (sample_size + 2)

\* The steps left to the end of the run.
Rank ==
    IF entry = "test"
    THEN IF fpc = "idle"
         THEN (FAMILY - ti + 1) * (tn + 2)
         ELSE (FAMILY - ti) * (tn + 2) + Max0(fr.n - 1) + 1
    ELSE CASE pc = "shuffle" -> Len(functions) * MeasureSteps + 2
           [] pc = "loop" -> (Len(functions) - idx + 1) * MeasureSteps + 1
           [] pc = "warmup" ->
                 (WarmupCount(samples) - warm) + samples * (sample_size + 2)
                 + 2 + (Len(functions) - idx) * MeasureSteps + 1
           [] pc = "samples" ->
                 (samples - sample) * (sample_size + 2)
                 + 1 + (Len(functions) - idx) * MeasureSteps + 1
           [] pc = "batch" ->
                 (sample_size - call) + 1
                 + (samples - sample - 1) * (sample_size + 2)
                 + 1 + (Len(functions) - idx) * MeasureSteps + 1
           [] OTHER -> 0

\* The counts of the run, in every state.
IterationCounts ==
    /\ (entry = "test" /\ fpc = "loop") =>
          fr.iters + Max0(fr.n - 1) = Max0(tn - 1)
    /\ (entry = "main" /\ calls > 0) => fr.iters = ARG - 1
    /\ pc \in {"warmup", "samples", "batch"} =>
          /\ calls = warm + sample * SAMPLE_SIZE
                     + (IF pc = "batch" THEN call ELSE 0)
          /\ Len(trace) = finished + 1
    /\ (pc \in {"loop", "done"} /\ finished > 0) =>
          calls = SAMPLES \div 10 + SAMPLES * SAMPLE_SIZE
    /\ pc \in {"shuffle", "loop", "done"} => Len(trace) = finished
    /\ finished <= NFUNCS
    /\ stdout # <<>> => (finished = NFUNCS /\ Len(trace) = NFUNCS)

\* C10: factorial(n) runs max(n - 1, 0) loop iterations; every measure makes
\* SAMPLES / 10 + SAMPLES * SAMPLE_SIZE calls; the measure calls run one
\* after the other and all have returned when the summary is written; every
\* step brings the end of the run nearer, so the run terminates after a
\* number of steps fixed by the constants alone.
DeterministicRun == []IterationCounts /\ [][Rank' < Rank]_vars

\* C10 witness: the run has ended after NFUNCS measure calls.
DeterministicRunWitness ==
    /\ pc = "done"
    /\ finished = NFUNCS
    /\ calls = SAMPLES \div 10 + SAMPLES * SAMPLE_SIZE
    /\ fr.iters = ARG - 1
    /\ Rank = 0
====
